---- MODULE Spec2Model ----
(***************************************************************************)
(* Model of the Salt state module java.py: trust_cert and its three        *)
(* discovery helpers, run against a host (login shell, file system,        *)
(* keytool binaries, trust store files, process environment).              *)
(*                                                                         *)
(* Python values: None is NoValue, True/False/None result codes are the    *)
(* strings PyTrue/PyFalse/PyNone, a dict is a set of <<key, value>> pairs, *)
(* a str is a TLA+ string and + on str is \o.  subprocess.check_output     *)
(* has three outcomes: it returns the output, it raises CalledProcessError *)
(* (non-zero exit), or it raises OSError (the executable cannot be run).   *)
(* keytool itself is a black box; KeytoolList, KeytoolPrintCert and        *)
(* KeytoolImport state its command-line contract.                          *)
(***************************************************************************)
EXTENDS Integers, Sequences, FiniteSets, TLC

VARIABLES
    shell,      \* what running /bin/bash -c 'source /etc/profile && ...' does
    profile,    \* the JAVA_HOME that /etc/profile exports, or NoValue
    dirs,       \* the paths that are existing directories
    tree,       \* per root: the cacerts files os.walk finds, in walk order
    tools,      \* per keytool path: what running it with -help does
    certs,      \* per certificate file: valid, invalid or missing
    environ,    \* JAVA_HOME in the process environment (os.putenv)
    stores,     \* per trust store file: aliases, password, corrupt, writable
    last,       \* <<the most recent invocation>>, or <<>> before the first
    prev,       \* <<the invocation before it>>, or <<>>
    procs       \* per interleaved caller: the frame of its invocation in progress

host == <<shell, profile, dirs, tree, tools, certs>>
vars == <<shell, profile, dirs, tree, tools, certs, environ, stores, last, prev, procs>>

----------------------------------------------------------------------------
(* Python values *)

NoValue == "<None>"
PyTrue == "True"
PyFalse == "False"
PyNone == "None"
EmptyDict == {}

\* Python truthiness of a str-or-None value: None and '' are falsy.
Truthy(v) == v # NoValue /\ v # ""

\* s contains t as a substring
Contains(s, t) == \E i \in 1..(Len(s) - Len(t) + 1) : SubSeq(s, i, i + Len(t) - 1) = t

----------------------------------------------------------------------------
(* The host and the inputs the model draws from *)

JavaDir == "/opt/java"
NoSuchDir == "/nonexistent"
Installs == {JavaDir}
Roots == Installs \cup {NoSuchDir}

os_sep == "/"
SystemKeytool == "/usr/bin/keytool"
HomeKeytool(java_home) == java_home \o os_sep \o "bin" \o os_sep \o "keytool"
ToolPaths == {SystemKeytool} \cup {HomeKeytool(r) : r \in Roots}

CacertsPath(root) == root \o "/jre/lib/security/cacerts"

DefaultStorepass == "changeit"
Passwords == {DefaultStorepass, "wrong"}
Alias == "myca"
OldAlias == "oldca"
CertFile == "/srv/ca.pem"
StateName == "trust-myca"

ProcOutcomes == {"ok", "fail", "missing"}
CertStates == {"valid", "invalid", "missing"}

Args == [name : {StateName}, cert_file : {CertFile}, alias : {Alias},
         storepass : Passwords, java_home : Roots \cup {NoValue}]

StoreRecs == [aliases : {{OldAlias}, {OldAlias, Alias}}, password : {DefaultStorepass},
              corrupt : BOOLEAN, writable : BOOLEAN]

----------------------------------------------------------------------------
(* External processes.  A call result is [exc, value, calls]: exc is the   *)
(* exception that escapes (NoValue when none), calls the external          *)
(* invocations made, in order.                                             *)

OSError == "OSError"

\* The external invocations, as <<executable, operation>>.
BashCall == <<"/bin/bash", "source /etc/profile && echo -n $JAVA_HOME">>
WalkCall(java_home) == <<"os.walk", java_home>>
KeytoolCall(keytool, op) == <<keytool, op>>

\* echo -n $JAVA_HOME in a shell that sourced /etc/profile: the profile's
\* export wins, otherwise the variable inherited from the calling process.
ShellEcho(env) ==
    IF profile # NoValue THEN profile
    ELSE IF env # NoValue THEN env
    ELSE ""

\* keytool -keystore ts -list [-alias a] -storepass p: exit 0 iff the store
\* opens with p and, when an alias is given, holds it.
KeytoolOpens(st, ts, storepass) ==
    /\ ts \in DOMAIN st
    /\ ~st[ts].corrupt
    /\ st[ts].password = storepass

KeytoolListAlias(st, o) ==
    KeytoolOpens(st, o.keystore, o.storepass) /\ o.alias \in st[o.keystore].aliases

KeytoolList(st, o) == KeytoolOpens(st, o.keystore, o.storepass)

KeytoolListOutput(st, o) ==
    IF o.keystore \in DOMAIN st /\ st[o.keystore].corrupt
    THEN "keytool error: java.io.IOException: Invalid keystore format"
    ELSE "keytool error: java.io.IOException: Keystore was tampered with, or password was incorrect"

\* keytool -printcert -file f: exit 0 iff f decodes as a certificate.
KeytoolPrintCert(o) == certs[o.file] = "valid"

KeytoolPrintCertOutput(o) ==
    IF certs[o.file] = "missing"
    THEN "keytool error: java.io.FileNotFoundException: " \o o.file
    ELSE "keytool error: java.lang.Exception: Failed to parse input"

\* keytool -importcert -trustcacerts -file f -keystore ts -alias a
\*         -storepass p -noprompt
KeytoolImportOk(st, o) ==
    /\ KeytoolOpens(st, o.keystore, o.storepass)
    /\ certs[o.file] = "valid"
    /\ o.alias \notin st[o.keystore].aliases
    /\ st[o.keystore].writable

KeytoolImportOutput(st, o) ==
    IF ~KeytoolOpens(st, o.keystore, o.storepass) THEN KeytoolListOutput(st, o)
    ELSE IF certs[o.file] # "valid" THEN "keytool error: java.lang.Exception: Input not an X.509 certificate"
    ELSE IF o.alias \in st[o.keystore].aliases
    THEN "keytool error: java.lang.Exception: Certificate not imported, alias <" \o o.alias \o "> already exists"
    ELSE "keytool error: java.io.FileNotFoundException: " \o o.keystore \o " (Permission denied)"

KeytoolImportEffect(st, o) ==
    IF KeytoolImportOk(st, o)
    THEN [st EXCEPT ![o.keystore].aliases = @ \cup {o.alias}]
    ELSE st

----------------------------------------------------------------------------
(* The discovery helpers *)

\* _find_java_home: the explicit root if it is a directory, else what the
\* login shell echoes; CalledProcessError gives None, OSError escapes.
_find_java_home(java_home, env) ==
    IF Truthy(java_home) /\ java_home \in dirs
    THEN [exc |-> NoValue, value |-> java_home, calls |-> <<>>]
    ELSE CASE shell = "missing" -> [exc |-> OSError, value |-> NoValue, calls |-> <<BashCall>>]
           [] shell = "fail" -> [exc |-> NoValue, value |-> NoValue, calls |-> <<BashCall>>]
           [] shell = "ok" -> [exc |-> NoValue, value |-> ShellEcho(env), calls |-> <<BashCall>>]

\* _find_trust_store: the first cacerts file os.walk(java_home) meets.
_find_trust_store(java_home) ==
    LET ret == tree[java_home] IN
    [exc |-> NoValue,
     value |-> IF Len(ret) <= 0 THEN NoValue ELSE ret[1],
     calls |-> <<WalkCall(java_home)>>]

KeytoolCandidates(java_home) == <<SystemKeytool, HomeKeytool(java_home)>>

\* The for loop of _find_keytool over the candidates from index i on.
RECURSIVE KeytoolLoop(_, _, _)
KeytoolLoop(cands, i, calls) ==
    IF i > Len(cands)
    THEN [exc |-> NoValue, value |-> NoValue, calls |-> calls]
    ELSE LET keytool == cands[i]
             made == Append(calls, KeytoolCall(keytool, "-help"))
         IN  CASE tools[keytool] = "missing" -> [exc |-> OSError, value |-> NoValue, calls |-> made]
               [] tools[keytool] = "fail" -> KeytoolLoop(cands, i + 1, made)
               [] tools[keytool] = "ok" -> [exc |-> NoValue, value |-> keytool, calls |-> made]

_find_keytool(java_home) == KeytoolLoop(KeytoolCandidates(java_home), 1, <<>>)

----------------------------------------------------------------------------
(* trust_cert, one step per external probe.  A frame holds the locals of   *)
(* one invocation; a step maps (frame, environ, stores) to the same three. *)

\* Faulty variant: the test-mode override of lines 29-31 is lost
result_code_live(test) ==
    [none |-> PyTrue, failure |-> PyFalse, success |-> PyTrue]

\* The result codes: live, then overridden when __opts__['test'] is set.
result_code(test) ==
    [none |-> PyTrue,
     failure |-> IF test THEN PyNone ELSE PyFalse,
     success |-> IF test THEN PyNone ELSE PyTrue]

\* Faulty variant: old and new are swapped
Changes_swapped(alias) == {<<"old", alias>>, <<"new", "">>}

\* ret['changes'] of the apply step
Changes(alias) == {<<"old", "">>, <<"new", alias>>}

CommentNoJava == "Java is not installed"
CommentNoStore == "Could not find Java trust store."
CommentNoKeytool == "Could not find keytool binary."
CommentExists == "CA alias exists in trust store."
\* Faulty variant: the tool's output is dropped from the comment
CommentKeystore_no_output(trust_store, output) == "Keystore " \o trust_store \o " problem:\n"
CommentKeystore(trust_store, output) == "Keystore " \o trust_store \o " problem:\n" \o output
CommentBadCert(cert_file, output) == "File " \o cert_file \o " is not a valid certificate:\n" \o output
\* Faulty variant: the tool's error text is wrapped in a message of the module's own
CommentImportFailed_wrapped(output) == "Could not import certificate:\n" \o output
\* ret['comment'] = e.output (line 100)
CommentImportFailed(output) == output
CommentAdded(alias) == "Certificate \"" \o alias \o "\" was added as a trusted root."
CommentWillAdd(alias) == "Certificate \"" \o alias \o "\" will be added as a trusted root."

\* Faulty variant: ret starts out with the change record already filled in
Begin_prefilled(args, test) ==
    [pc |-> "find_java_home", test |-> test,
     name |-> args.name, cert_file |-> args.cert_file, alias |-> args.alias,
     storepass |-> args.storepass, java_home |-> args.java_home,
     trust_store |-> NoValue, keytool |-> NoValue,
     ret |-> [name |-> args.name, changes |-> {<<"old", "">>, <<"new", args.alias>>},
              result |-> PyFalse, comment |-> ""],
     exc |-> NoValue, log |-> <<>>]

\* The frame at entry: the arguments and ret as line 21 builds it.
Begin(args, test) ==
    [pc |-> "find_java_home", test |-> test,
     name |-> args.name, cert_file |-> args.cert_file, alias |-> args.alias,
     storepass |-> args.storepass, java_home |-> args.java_home,
     trust_store |-> NoValue, keytool |-> NoValue,
     ret |-> [name |-> args.name, changes |-> EmptyDict, result |-> PyFalse, comment |-> ""],
     exc |-> NoValue, log |-> <<>>]

Logged(f, calls) == [f EXCEPT !.log = f.log \o calls]

\* ret['result'] = ...; ret['comment'] = ...; return ret
Return(f, result, comment) ==
    [f EXCEPT !.ret.result = result, !.ret.comment = comment, !.pc = "returned"]

\* an exception leaves trust_cert: no ret reaches the caller
Raise(f, e) == [f EXCEPT !.exc = e, !.pc = "raised"]

Out(f, env, st) == [f |-> f, environ |-> env, stores |-> st]

\* lines 33-40
Step_find_java_home(f, env, st) ==
    LET r == _find_java_home(f.java_home, env)
        g == Logged(f, r.calls)
    IN  IF r.exc # NoValue THEN Out(Raise(g, r.exc), env, st)
        ELSE IF ~Truthy(r.value)
        THEN Out(Return([g EXCEPT !.java_home = r.value], result_code(f.test).none, CommentNoJava), env, st)
        ELSE Out([g EXCEPT !.java_home = r.value, !.pc = "find_trust_store"], r.value, st)

\* lines 42-47
Step_find_trust_store(f, env, st) ==
    LET r == _find_trust_store(f.java_home)
        g == Logged(f, r.calls)
    IN  IF ~Truthy(r.value)
        THEN Out(Return(g, result_code(f.test).failure, CommentNoStore), env, st)
        ELSE Out([g EXCEPT !.trust_store = r.value, !.pc = "find_keytool"], env, st)

\* lines 49-54
Step_find_keytool(f, env, st) ==
    LET r == _find_keytool(f.java_home)
        g == Logged(f, r.calls)
    IN  IF r.exc # NoValue THEN Out(Raise(g, r.exc), env, st)
        ELSE IF ~Truthy(r.value)
        THEN Out(Return(g, result_code(f.test).failure, CommentNoKeytool), env, st)
        ELSE Out([g EXCEPT !.keytool = r.value, !.pc = "list_alias"], env, st)

\* keytool_opts of the four keytool invocations (lines 57, 72, 82, 93-94)
\* Faulty variant: the probe asks for the state's name instead of the alias
ListAliasOpts_name(f) == [keystore |-> f.trust_store, alias |-> f.name, storepass |-> f.storepass]
ListAliasOpts(f) == [keystore |-> f.trust_store, alias |-> f.alias, storepass |-> f.storepass]
ListOpts(f) == [keystore |-> f.trust_store, storepass |-> f.storepass]
PrintCertOpts(f) == [file |-> f.cert_file]
\* Faulty variant: the import stores the certificate under the state's name
ImportOpts_name(f) ==
    [file |-> f.cert_file, keystore |-> f.trust_store, alias |-> f.name, storepass |-> f.storepass]
ImportOpts(f) ==
    [file |-> f.cert_file, keystore |-> f.trust_store, alias |-> f.alias, storepass |-> f.storepass]

\* Faulty variant: the probe's exit status is not looked at
Step_list_alias_unchecked(f, env, st) ==
    Out(Return(Logged(f, <<KeytoolCall(f.keytool, "-list -alias")>>),
               result_code(f.test).none, CommentExists),
        env, st)

\* lines 56-67
Step_list_alias(f, env, st) ==
    LET g == Logged(f, <<KeytoolCall(f.keytool, "-list -alias")>>)
    IN  IF KeytoolListAlias(st, ListAliasOpts(f))
        THEN Out(Return(g, result_code(f.test).none, CommentExists), env, st)
        ELSE Out([g EXCEPT !.pc = "list"], env, st)

\* Faulty variant: a readable store leads straight to the apply step
Step_list_then_apply(f, env, st) ==
    LET g == Logged(f, <<KeytoolCall(f.keytool, "-list")>>)
    IN  IF KeytoolList(st, ListOpts(f))
        THEN Out([g EXCEPT !.pc = "apply"], env, st)
        ELSE Out(Return(g, result_code(f.test).failure,
                        CommentKeystore(f.trust_store, KeytoolListOutput(st, ListOpts(f)))),
                 env, st)

\* lines 69-79
Step_list(f, env, st) ==
    LET g == Logged(f, <<KeytoolCall(f.keytool, "-list")>>)
    IN  IF KeytoolList(st, ListOpts(f))
        THEN Out([g EXCEPT !.pc = "printcert"], env, st)
        ELSE Out(Return(g, result_code(f.test).failure,
                        CommentKeystore(f.trust_store, KeytoolListOutput(st, ListOpts(f)))),
                 env, st)

\* Faulty variant: the failed decode is swallowed like the failed alias probe
Step_printcert_swallowed(f, env, st) ==
    Out([Logged(f, <<KeytoolCall(f.keytool, "-printcert")>>) EXCEPT !.pc = "apply"], env, st)

\* lines 81-89
Step_printcert(f, env, st) ==
    LET g == Logged(f, <<KeytoolCall(f.keytool, "-printcert")>>)
    IN  IF KeytoolPrintCert(PrintCertOpts(f))
        THEN Out([g EXCEPT !.pc = "apply"], env, st)
        ELSE Out(Return(g, result_code(f.test).failure,
                        CommentBadCert(f.cert_file, KeytoolPrintCertOutput(PrintCertOpts(f)))),
                 env, st)

\* Faulty variant: the import runs in test mode too
LiveMode_always(f) == TRUE

\* Faulty variant: the two branches of the apply step are swapped
LiveMode_inverted(f) == f.test

\* if not __opts__['test'] (line 92)
LiveMode(f) == ~f.test

\* lines 91-116
Step_apply(f, env, st) ==
    IF LiveMode(f)
    THEN LET g == Logged(f, <<KeytoolCall(f.keytool, "-importcert")>>)
         IN  IF ~KeytoolImportOk(st, ImportOpts(f))
             THEN Out(Return(g, result_code(f.test).failure,
                             CommentImportFailed(KeytoolImportOutput(st, ImportOpts(f)))),
                      env, KeytoolImportEffect(st, ImportOpts(f)))
             ELSE Out(Return([g EXCEPT !.ret.changes = Changes(f.alias)],
                             result_code(f.test).success, CommentAdded(f.alias)),
                      env, KeytoolImportEffect(st, ImportOpts(f)))
    ELSE Out(Return([f EXCEPT !.ret.changes = Changes(f.alias)],
                    result_code(f.test).success, CommentWillAdd(f.alias)),
             env, st)

Finished(f) == f.pc \in {"returned", "raised"}

\* One step of an invocation, by its position.
Step(f, env, st) ==
    CASE f.pc = "find_java_home" -> Step_find_java_home(f, env, st)
      [] f.pc = "find_trust_store" -> Step_find_trust_store(f, env, st)
      [] f.pc = "find_keytool" -> Step_find_keytool(f, env, st)
      [] f.pc = "list_alias" -> Step_list_alias(f, env, st)
      [] f.pc = "list" -> Step_list(f, env, st)
      [] f.pc = "printcert" -> Step_printcert(f, env, st)
      [] f.pc = "apply" -> Step_apply(f, env, st)

\* An invocation run to its end without interleaving.
RECURSIVE Run(_)
Run(o) == IF Finished(o.f) THEN o ELSE Run(Step(o.f, o.environ, o.stores))

trust_cert(args, test, env, st) == Run(Out(Begin(args, test), env, st))

----------------------------------------------------------------------------
(* The specification: a caller invokes trust_cert again and again on one   *)
(* host, one invocation at a time.                                         *)

StoreFiles == {tree[r][i] : <<r, i>> \in {x \in Roots \X {1} : Len(tree[x[1]]) >= x[2]}}

\* A host: only directories hold files, and what /etc/profile exports is
\* left out when the shell does not get to echo it.
HostInit ==
    /\ shell \in ProcOutcomes
    /\ profile \in Roots \cup {NoValue}
    /\ shell # "ok" => profile = NoValue
    /\ dirs \in SUBSET Installs
    /\ tree \in [Roots -> UNION {{<<>>, <<CacertsPath(r)>>} : r \in Roots}]
    /\ \A r \in Roots : /\ tree[r] \in {<<>>, <<CacertsPath(r)>>}
                        /\ r \notin dirs => tree[r] = <<>>
    /\ tools \in [ToolPaths -> ProcOutcomes]
    /\ \A r \in Roots : r \notin dirs => tools[HomeKeytool(r)] = "missing"
    /\ certs \in [{CertFile} -> CertStates]
    /\ environ = NoValue
    /\ stores \in [StoreFiles -> StoreRecs]

\* No invocation has been made, none is in progress.
Init ==
    /\ HostInit
    /\ last = <<>>
    /\ prev = <<>>
    /\ procs = <<>>

\* What is kept of an invocation once another one has followed it.
Summary(call) ==
    [args |-> call.args, test |-> call.f.test, exc |-> call.f.exc, ret |-> call.f.ret]

Invoke(args, test) ==
    \E o \in {trust_cert(args, test, environ, stores)} :
    /\ environ' = o.environ
    /\ stores' = o.stores
    /\ last' = <<[args |-> args, f |-> o.f, environ0 |-> environ, stores0 |-> stores]>>
    /\ prev' = IF last = <<>> THEN <<>> ELSE <<Summary(last[1])>>
    /\ UNCHANGED <<host, procs>>

\* trust_cert with __opts__['test'] false
LiveRun == \E args \in Args : Invoke(args, FALSE)

\* trust_cert with __opts__['test'] true
DryRun == \E args \in Args : Invoke(args, TRUE)

Next == LiveRun \/ DryRun

Spec == Init /\ [][Next]_vars

----------------------------------------------------------------------------
(* The interleaved specification: two callers have each entered trust_cert *)
(* in live mode with the same inputs, and their steps interleave at the    *)
(* external invocations.  The code takes no lock (there is none in         *)
(* trust_cert), so any step of either caller may come next.                *)

Procs == {"A", "B"}

ConcInit ==
    /\ HostInit
    /\ last = <<>>
    /\ prev = <<>>
    /\ \E args \in Args : procs = [p \in Procs |-> Begin(args, FALSE)]

\* Faulty variant: a caller holds back while the other is between its alias
\* probe and its return
ProcCanStep_exclusive(p) ==
    /\ ~Finished(procs[p])
    /\ \A q \in Procs \ {p} : procs[q].pc \notin {"list", "printcert", "apply"}

\* a caller that has not returned or raised takes its next step whenever it
\* is scheduled
ProcCanStep(p) == ~Finished(procs[p])

ProcStep(p) ==
    /\ ProcCanStep(p)
    /\ \E o \in {Step(procs[p], environ, stores)} :
        /\ procs' = [procs EXCEPT ![p] = o.f]
        /\ environ' = o.environ
        /\ stores' = o.stores
    /\ UNCHANGED <<host, last, prev>>

ConcNext == \E p \in Procs : ProcStep(p)

SpecConc == ConcInit /\ [][ConcNext]_vars

----------------------------------------------------------------------------
(* Vocabulary of the properties.  c is an invocation as `last` holds it,   *)
(* p one as `prev` holds it.                                               *)

Called == last # <<>>
CalledTwice == last # <<>> /\ prev # <<>>

Returned(c) == c.f.pc = "returned" /\ c.f.exc = NoValue
Invoked(c, op) == \E i \in DOMAIN c.f.log : c.f.log[i][2] = op
ImportInvoked(c) == Invoked(c, "-importcert")

\* the three locators each gave a value
DiscoverySucceeded(c) ==
    Truthy(c.f.java_home) /\ Truthy(c.f.trust_store) /\ Truthy(c.f.keytool)

\* the store the invocation found, as it was at entry
AliasInStore(c) ==
    c.f.trust_store \in DOMAIN c.stores0 /\ c.f.alias \in c.stores0[c.f.trust_store].aliases
StoreOpens(c) == KeytoolOpens(c.stores0, c.f.trust_store, c.f.storepass)
ImportFailed(c) == ImportInvoked(c) /\ ~KeytoolImportOk(c.stores0, ImportOpts(c.f))

\* the outcomes, by record, in the words of the specification
SaysAlreadyPresent == "CA alias exists in trust store."
SaysNoJava == "Java is not installed"
OldNew(alias) == {<<"old", "">>, <<"new", alias>>}

IsAlreadyPresent(ret) ==
    ret.result = "True" /\ ret.comment = SaysAlreadyPresent /\ ret.changes = {}
IsLiveSuccess(ret, alias) ==
    ret.result = "True" /\ Contains(ret.comment, alias) /\ ret.changes = OldNew(alias)
IsPreview(ret, alias) ==
    ret.result = "None" /\ ret.changes = OldNew(alias)

SameInputs == prev[1].args = last[1].args

----------------------------------------------------------------------------
(* C1 *)

\* C1 as stated: whatever the inputs and the host, the second of two
\* consecutive live invocations with identical inputs returns the neutral
\* 'already present' outcome.
C1_SecondIsAlreadyPresent ==
    (CalledTwice /\ SameInputs /\ ~prev[1].test /\ ~last[1].f.test)
        => (Returned(last[1]) /\ IsAlreadyPresent(last[1].f.ret))

\* C1, amended: when the first of two consecutive live invocations with
\* identical inputs returned the success outcome (it imported the
\* certificate) or the 'already present' outcome, the second returns the
\* neutral 'already present' outcome.
C1_Idempotent ==
    (/\ CalledTwice /\ SameInputs /\ ~prev[1].test /\ ~last[1].f.test
     /\ prev[1].exc = NoValue
     /\ \/ IsLiveSuccess(prev[1].ret, prev[1].args.alias)
        \/ IsAlreadyPresent(prev[1].ret))
        => (Returned(last[1]) /\ IsAlreadyPresent(last[1].f.ret))

\* the second live invocation after one that imported
C1_Witness ==
    /\ CalledTwice /\ SameInputs /\ ~prev[1].test /\ ~last[1].f.test
    /\ IsLiveSuccess(prev[1].ret, prev[1].args.alias)
    /\ IsAlreadyPresent(last[1].f.ret)

----------------------------------------------------------------------------
(* C2 *)

\* C2: an invocation leaves every trust store as it was, unless it ran in
\* live mode, passed steps 1-6 (the three locators gave values, list-by-alias
\* failed, list-all and the decode probe succeeded) and invoked the import.
C2_StoreChangesOnlyInLiveApply ==
    Called =>
        \/ stores = last[1].stores0
        \/ /\ ~last[1].f.test
           /\ DiscoverySucceeded(last[1])
           /\ ~KeytoolListAlias(last[1].stores0, ListAliasOpts(last[1].f))
           /\ KeytoolList(last[1].stores0, ListOpts(last[1].f))
           /\ KeytoolPrintCert(PrintCertOpts(last[1].f))
           /\ ImportInvoked(last[1])

\* a live invocation that changed the trust store
C2_Witness ==
    Called /\ stores # last[1].stores0 /\ ~last[1].f.test /\ ImportInvoked(last[1])

----------------------------------------------------------------------------
(* C3 *)

\* C3: every invocation ends by returning a populated Outcome Record; no
\* exception leaves trust_cert.
C3_AlwaysReturnsOutcome ==
    Called =>
        /\ Returned(last[1])
        /\ last[1].f.ret.name = last[1].args.name
        /\ last[1].f.ret.result \in {"True", "False", "None"}
        /\ last[1].f.ret.comment # ""

----------------------------------------------------------------------------
(* C4 *)

\* no valid explicit override, and the shell does not run, fails, or echoes
\* nothing
RootUnresolved(c) ==
    /\ ~(Truthy(c.args.java_home) /\ c.args.java_home \in dirs)
    /\ shell # "ok" \/ ~Truthy(ShellEcho(c.environ0))

\* C4: when the Installation Root cannot be resolved the outcome is neutral
\* with comment 'Java is not installed' and no changes, no trust store
\* search and no keytool invocation is made, and nothing is modified.
C4_UnresolvedRootIsNeutral ==
    (Called /\ RootUnresolved(last[1])) =>
        /\ Returned(last[1])
        /\ last[1].f.ret.result = "True"
        /\ last[1].f.ret.comment = SaysNoJava
        /\ last[1].f.ret.changes = {}
        /\ \A i \in DOMAIN last[1].f.log : last[1].f.log[i] = BashCall
        /\ stores = last[1].stores0
        /\ environ = last[1].environ0

----------------------------------------------------------------------------
(* C5 *)

\* C5: a live invocation whose discovery succeeds, whose store opens with
\* the given password and does not hold the alias, whose certificate file
\* decodes and whose import succeeds returns the success status, a comment
\* containing the alias and changes {old: '', new: alias}; afterwards the
\* alias is in the trust store.
C5_LiveApplySucceeds ==
    (/\ Called /\ ~last[1].f.test
     /\ DiscoverySucceeded(last[1])
     /\ StoreOpens(last[1]) /\ ~AliasInStore(last[1])
     /\ certs[last[1].args.cert_file] = "valid"
     /\ ~ImportFailed(last[1]))
        => /\ Returned(last[1])
           /\ last[1].f.ret.result = "True"
           /\ Contains(last[1].f.ret.comment, last[1].args.alias)
           /\ last[1].f.ret.changes = OldNew(last[1].args.alias)
           /\ ImportInvoked(last[1])
           /\ last[1].args.alias \in stores[last[1].f.trust_store].aliases

\* a live invocation that imported the alias into a store that lacked it
C5_Witness ==
    /\ Called /\ ~last[1].f.test /\ DiscoverySucceeded(last[1])
    /\ ~AliasInStore(last[1]) /\ ImportInvoked(last[1])
    /\ last[1].args.alias \in stores[last[1].f.trust_store].aliases
    /\ last[1].f.ret.changes # {}

----------------------------------------------------------------------------
(* C6 *)

\* C6 as stated: whenever discovery succeeds and the alias is in the trust
\* store, the outcome is the neutral 'already present' one with an empty
\* change record, in either mode, and the import is not invoked.
C6_PresentAliasIsNeutral ==
    (Called /\ DiscoverySucceeded(last[1]) /\ AliasInStore(last[1]))
        => /\ Returned(last[1])
           /\ IsAlreadyPresent(last[1].f.ret)
           /\ ~ImportInvoked(last[1])

\* C6, amended: whenever discovery succeeds, the alias is in the trust
\* store and the store opens with the given password (so the list-by-alias
\* probe succeeds), the outcome is the neutral 'already present' one with an
\* empty change record, in either mode, and the import is not invoked.
C6_ProbedAliasIsNeutral ==
    (Called /\ DiscoverySucceeded(last[1]) /\ AliasInStore(last[1]) /\ StoreOpens(last[1]))
        => /\ Returned(last[1])
           /\ IsAlreadyPresent(last[1].f.ret)
           /\ ~ImportInvoked(last[1])
           /\ stores = last[1].stores0

\* a dry run that met the alias in a store it could open
C6_Witness ==
    /\ Called /\ last[1].f.test /\ DiscoverySucceeded(last[1])
    /\ AliasInStore(last[1]) /\ StoreOpens(last[1])
    /\ Invoked(last[1], "-list -alias")
    /\ last[1].f.ret.comment = SaysAlreadyPresent

----------------------------------------------------------------------------
(* C7 *)

WrongPassword(c) ==
    /\ c.f.trust_store \in DOMAIN c.stores0
    /\ c.stores0[c.f.trust_store].password # c.f.storepass

\* C7: whenever discovery succeeds and the store password is wrong, the
\* outcome is the failure of its mode, its comment includes keytool's raw
\* rejection text, the change record is empty, the trust store is not
\* mutated and the import is not invoked.
C7_WrongPasswordFails ==
    (Called /\ DiscoverySucceeded(last[1]) /\ WrongPassword(last[1]))
        => /\ Returned(last[1])
           /\ last[1].f.ret.result = (IF last[1].f.test THEN "None" ELSE "False")
           /\ Contains(last[1].f.ret.comment, KeytoolListOutput(last[1].stores0, ListOpts(last[1].f)))
           /\ last[1].f.ret.changes = {}
           /\ stores = last[1].stores0
           /\ ~ImportInvoked(last[1])

\* a live invocation with the wrong password against a store holding the alias
C7_Witness ==
    /\ Called /\ ~last[1].f.test /\ DiscoverySucceeded(last[1]) /\ WrongPassword(last[1])
    /\ AliasInStore(last[1])
    /\ Invoked(last[1], "-list")
    /\ last[1].f.ret.result = "False"

----------------------------------------------------------------------------
(* C8 *)

\* C8: whenever the decode/print probe is run on a certificate file that is
\* not a valid certificate, the outcome is the failure of its mode, its
\* comment names the certificate file path, the change record is empty and
\* the trust store is not mutated.
C8_InvalidCertFails ==
    (Called /\ Invoked(last[1], "-printcert") /\ certs[last[1].args.cert_file] # "valid")
        => /\ Returned(last[1])
           /\ last[1].f.ret.result = (IF last[1].f.test THEN "None" ELSE "False")
           /\ Contains(last[1].f.ret.comment, "File " \o last[1].args.cert_file)
           /\ last[1].f.ret.changes = {}
           /\ stores = last[1].stores0
           /\ ~ImportInvoked(last[1])

\* a dry run that probed a file that does not decode
C8_Witness ==
    /\ Called /\ last[1].f.test /\ Invoked(last[1], "-printcert")
    /\ certs[last[1].args.cert_file] = "invalid"
    /\ last[1].f.ret.result = "None"

----------------------------------------------------------------------------
(* C9 *)

DryThenLive == CalledTwice /\ SameInputs /\ prev[1].test /\ ~last[1].f.test

\* C9 as stated: a dry run followed at once by a live run with the same
\* inputs gives, on the live run, a success outcome whose change record
\* carries the alias of the dry run's change record.
C9_DryThenLiveSucceeds ==
    DryThenLive
        => /\ Returned(last[1])
           /\ IsLiveSuccess(last[1].f.ret, last[1].args.alias)
           /\ last[1].f.ret.changes = prev[1].ret.changes

\* C9, amended: when the dry run returned the preview outcome (would-be
\* status, non-empty change record) and the import the live run invokes does
\* not fail, the live run with the same inputs returns a success outcome
\* whose change record equals the preview's.
C9_PreviewThenLiveSucceeds ==
    (/\ DryThenLive
     /\ prev[1].exc = NoValue
     /\ IsPreview(prev[1].ret, prev[1].args.alias)
     /\ ~ImportFailed(last[1]))
        => /\ Returned(last[1])
           /\ ImportInvoked(last[1])
           /\ IsLiveSuccess(last[1].f.ret, last[1].args.alias)
           /\ last[1].f.ret.changes = prev[1].ret.changes

\* a preview followed by a live run that imported
C9_Witness ==
    /\ DryThenLive
    /\ IsPreview(prev[1].ret, prev[1].args.alias)
    /\ ImportInvoked(last[1])
    /\ stores # last[1].stores0
    /\ last[1].f.ret.changes = prev[1].ret.changes

----------------------------------------------------------------------------
(* C10 *)

\* the outcome's kind, read off what the record says rather than its status
Kind(ret) ==
    IF ret.comment \in {SaysNoJava, SaysAlreadyPresent} THEN "neutral"
    ELSE IF ret.changes # {} THEN "success"
    ELSE "failure"

LiveFailureStatus == "False"
LiveSuccessStatus == "True"
NeutralStatus == "True"
WouldBeStatus == "None"

\* C10: a dry run's failure and success (preview) outcomes carry the
\* would-be status, which is neither the live failure status nor the live
\* success status; neutral outcomes carry the neutral status in both modes;
\* a live run carries the live failure or success status, never the would-be
\* one.
C10_WouldBeStatus ==
    (Called /\ Returned(last[1])) =>
        /\ WouldBeStatus \notin {LiveFailureStatus, LiveSuccessStatus}
        /\ Kind(last[1].f.ret) = "neutral" => last[1].f.ret.result = NeutralStatus
        /\ (last[1].f.test /\ Kind(last[1].f.ret) # "neutral")
               => last[1].f.ret.result = WouldBeStatus
        /\ (~last[1].f.test /\ Kind(last[1].f.ret) = "failure")
               => last[1].f.ret.result = LiveFailureStatus
        /\ (~last[1].f.test /\ Kind(last[1].f.ret) = "success")
               => last[1].f.ret.result = LiveSuccessStatus
        /\ ~last[1].f.test => last[1].f.ret.result # WouldBeStatus

\* a dry run that ended in a failure outcome
C10_Witness ==
    /\ Called /\ Returned(last[1]) /\ last[1].f.test
    /\ Kind(last[1].f.ret) = "failure"
    /\ last[1].f.ret.result = "None"

----------------------------------------------------------------------------
(* C11 *)

\* steps 1-6 all fell through: the apply step is reached
ReachedApply(c) ==
    /\ DiscoverySucceeded(c)
    /\ ~KeytoolListAlias(c.stores0, ListAliasOpts(c.f))
    /\ KeytoolList(c.stores0, ListOpts(c.f))
    /\ KeytoolPrintCert(PrintCertOpts(c.f))

SaysAdded(ret) == Contains(ret.comment, "added as a trusted root.")

\* C11: the change description of a returned Outcome Record is non-empty
\* exactly when the outcome is a live successful import or a dry-run preview
\* reached at the apply step, and then it is {old: '', new: alias}; every
\* neutral and every failure outcome has an empty change description.
C11_ChangesOnlyOnApply ==
    (Called /\ Returned(last[1])) =>
        /\ last[1].f.ret.changes # {}
             <=> /\ ReachedApply(last[1])
                 /\ \/ last[1].f.test
                    \/ ImportInvoked(last[1]) /\ ~ImportFailed(last[1])
        /\ last[1].f.ret.changes # {} => last[1].f.ret.changes = OldNew(last[1].args.alias)
        /\ ~SaysAdded(last[1].f.ret) => last[1].f.ret.changes = {}

\* a failure outcome past the locators, with nothing in its change description
C11_Witness ==
    /\ Called /\ Returned(last[1]) /\ DiscoverySucceeded(last[1])
    /\ last[1].f.ret.result = "False"
    /\ last[1].f.ret.changes = {}

----------------------------------------------------------------------------
(* C12 *)

CountInvoked(c, op) == Cardinality({i \in DOMAIN c.f.log : c.f.log[i][2] = op})

\* C12: when the import invocation of a live run fails, the outcome is the
\* live failure, its comment is exactly the tool's error text, its change
\* description is empty, and the import was invoked once, not retried.
C12_FailedImportIsFailure ==
    (Called /\ ImportFailed(last[1])) =>
        /\ ~last[1].f.test
        /\ Returned(last[1])
        /\ last[1].f.ret.result = "False"
        /\ last[1].f.ret.comment = KeytoolImportOutput(last[1].stores0, ImportOpts(last[1].f))
        /\ last[1].f.ret.changes = {}
        /\ CountInvoked(last[1], "-importcert") = 1
        /\ stores = last[1].stores0

\* a live run whose import was refused by a read-only store
C12_Witness ==
    /\ Called /\ ImportFailed(last[1])
    /\ ~last[1].stores0[last[1].f.trust_store].writable
    /\ last[1].f.ret.result = "False"

----------------------------------------------------------------------------
(* C13 *)

\* the same call on the same host and trust stores, in a process that has
\* made no earlier invocation
FreshCall(c) == trust_cert(c.args, c.f.test, NoValue, c.stores0).f

\* C13: the outcome of an invocation is determined by its inputs, its mode
\* and the host (profile, file system, trust stores) at the time of the
\* call, not by earlier invocations in the process; in particular a call
\* without an override does not resolve the root an earlier call was given
\* explicitly.
C13_NoStateAcrossInvocations ==
    Called =>
        /\ last[1].f.ret = FreshCall(last[1]).ret
        /\ last[1].f.exc = FreshCall(last[1]).exc
        /\ (/\ prev # <<>>
            /\ Truthy(prev[1].args.java_home)
            /\ ~Truthy(last[1].args.java_home)
            /\ profile # prev[1].args.java_home)
               => last[1].f.java_home # prev[1].args.java_home

----------------------------------------------------------------------------
(* C14 *)

\* The conditions of the decision table, read off the host and the inputs.
TableRoot(c) ==
    IF Truthy(c.args.java_home) /\ c.args.java_home \in dirs THEN c.args.java_home
    ELSE IF shell = "ok" THEN ShellEcho(c.environ0)
    ELSE ""
TableStore(c) == IF tree[TableRoot(c)] = <<>> THEN "" ELSE tree[TableRoot(c)][1]
TableOpts(c) ==
    [file |-> c.args.cert_file, keystore |-> TableStore(c), alias |-> c.args.alias,
     storepass |-> c.args.storepass]

\* the lowest-numbered step of the table whose condition holds, 7 if none
TableStep(c) ==
    IF ~Truthy(TableRoot(c)) THEN 1
    ELSE IF tree[TableRoot(c)] = <<>> THEN 2
    ELSE IF \A t \in {SystemKeytool, HomeKeytool(TableRoot(c))} : tools[t] # "ok" THEN 3
    ELSE IF KeytoolListAlias(c.stores0, TableOpts(c)) THEN 4
    ELSE IF ~KeytoolList(c.stores0, TableOpts(c)) THEN 5
    ELSE IF certs[c.args.cert_file] # "valid" THEN 6
    ELSE 7

\* the step whose outcome a returned record carries, by its comment
OutcomeStep(ret) ==
    IF ret.comment = SaysNoJava THEN 1
    ELSE IF ret.comment = "Could not find Java trust store." THEN 2
    ELSE IF ret.comment = "Could not find keytool binary." THEN 3
    ELSE IF ret.comment = SaysAlreadyPresent THEN 4
    ELSE IF Contains(ret.comment, "Keystore ") /\ Contains(ret.comment, " problem:") THEN 5
    ELSE IF Contains(ret.comment, " is not a valid certificate:") THEN 6
    ELSE 7

\* C14: for every combination of the table's conditions the outcome returned
\* is that of the lowest-numbered step whose condition holds, and the apply
\* step is reached only when none of the conditions 1-6 holds.
C14_DecisionTablePriority ==
    Called =>
        /\ Returned(last[1])
        /\ OutcomeStep(last[1].f.ret) = TableStep(last[1])
        /\ (ImportInvoked(last[1]) \/ SaysAdded(last[1].f.ret)) => TableStep(last[1]) = 7

----------------------------------------------------------------------------
(* C15 *)

\* the place of an external invocation in the order of the steps
Rank(e) ==
    IF e[1] = "/bin/bash" THEN 1
    ELSE IF e[1] = "os.walk" THEN 2
    ELSE IF e[2] = "-help" THEN 3
    ELSE IF e[2] = "-list -alias" THEN 4
    ELSE IF e[2] = "-list" THEN 5
    ELSE IF e[2] = "-printcert" THEN 6
    ELSE 7

\* the step at which a returned record was produced: the apply step of a
\* dry run makes no invocation of its own, its last one is the decode probe
LastRank(c) ==
    IF OutcomeStep(c.f.ret) = 7 /\ c.f.test THEN 6 ELSE OutcomeStep(c.f.ret)

\* C15: the external invocations of one trust_cert call occur in the order
\* shell, trust store search, tool probing, list-by-alias, list-all,
\* decode/print, import, none of them skipped from the search on; the step
\* that produces the outcome is the last one executed; and the import is
\* invoked at most once, and only after list-by-alias failed and list-all and
\* the decode probe succeeded in the same call.
C15_StepOrder ==
    Called =>
        LET log == last[1].f.log IN
        /\ \A i, j \in DOMAIN log :
               i < j => \/ Rank(log[i]) < Rank(log[j])
                        \/ Rank(log[i]) = 3 /\ Rank(log[j]) = 3 /\ log[i] # log[j]
        /\ \A j \in DOMAIN log : \A k \in 2..(Rank(log[j]) - 1) :
               \E i \in 1..(j - 1) : Rank(log[i]) = k
        /\ log # <<>> /\ Returned(last[1]) => Rank(log[Len(log)]) = LastRank(last[1])
        /\ log = <<>> => ~Returned(last[1])
        /\ ~Returned(last[1]) => Rank(log[Len(log)]) \in {1, 3}
        /\ CountInvoked(last[1], "-importcert") <= 1
        /\ ImportInvoked(last[1]) =>
               /\ ~KeytoolListAlias(last[1].stores0, ListAliasOpts(last[1].f))
               /\ KeytoolList(last[1].stores0, ListOpts(last[1].f))
               /\ KeytoolPrintCert(PrintCertOpts(last[1].f))
               /\ log[Len(log)][2] = "-importcert"

\* a live call that went through every step, shell discovery included
C15_Witness ==
    /\ Called /\ ImportInvoked(last[1])
    /\ Invoked(last[1], "-printcert") /\ Invoked(last[1], "-list")
    /\ last[1].f.log[1] = BashCall
    /\ CountInvoked(last[1], "-help") = 2

----------------------------------------------------------------------------
(* C16 *)

\* the Tool Locator's answer as specified: the first candidate, in the
\* order system path, <root>/bin/keytool, whose help invocation succeeds
FirstUsableTool(root) ==
    IF tools["/usr/bin/keytool"] = "ok" THEN "/usr/bin/keytool"
    ELSE IF tools[root \o "/bin/keytool"] = "ok" THEN root \o "/bin/keytool"
    ELSE "not found"

\* C16: once the root and the trust store are found, the keytool used is the
\* first usable candidate in the order system path, <root>/bin/keytool (the
\* system path wins even under an explicit root), and when no candidate is
\* usable the outcome is the 'tool missing' failure.
C16_ToolLocatorOrder ==
    (Called /\ TableStep(last[1]) >= 3) =>
        /\ FirstUsableTool(TableRoot(last[1])) # "not found"
               => last[1].f.keytool = FirstUsableTool(TableRoot(last[1]))
        /\ FirstUsableTool(TableRoot(last[1])) = "not found"
               => /\ Returned(last[1])
                  /\ last[1].f.ret.comment = "Could not find keytool binary."
                  /\ last[1].f.ret.result = (IF last[1].f.test THEN "None" ELSE "False")

----------------------------------------------------------------------------
(* C17 *)

ExplicitRootIsDir(c) == Truthy(c.args.java_home) /\ c.args.java_home \in dirs

\* C17: an explicit root that is an existing directory is used as it is,
\* without shell discovery; otherwise the shell discovery is attempted; and
\* when the shell invocation fails or produces no value the resolver's
\* answer is 'not found' (the engine's neutral outcome), never an error.
C17_EnvironmentResolver ==
    Called =>
        /\ ExplicitRootIsDir(last[1])
               => /\ last[1].f.java_home = last[1].args.java_home
                  /\ ~Invoked(last[1], BashCall[2])
        /\ ~ExplicitRootIsDir(last[1]) => last[1].f.log[1] = BashCall
        /\ (~ExplicitRootIsDir(last[1]) /\ (shell # "ok" \/ ~Truthy(ShellEcho(last[1].environ0))))
               => /\ last[1].f.exc = NoValue
                  /\ Returned(last[1])
                  /\ last[1].f.ret.comment = SaysNoJava

----------------------------------------------------------------------------
(* C18 *)

PastStepOne(c) == \E i \in DOMAIN c.f.log : c.f.log[i][1] = "os.walk"

\* C18: whenever an invocation proceeds past step 1, the root it searches
\* for the trust store and the tool is an existing directory, supplied or
\* discovered; a discovered value that is not an existing directory is
\* treated as 'not found'.
C18_RootIsDirectory ==
    Called =>
        /\ PastStepOne(last[1]) => last[1].f.java_home \in dirs
        /\ (/\ ~ExplicitRootIsDir(last[1])
            /\ shell = "ok"
            /\ Truthy(ShellEcho(last[1].environ0))
            /\ ShellEcho(last[1].environ0) \notin dirs)
               => Returned(last[1]) /\ last[1].f.ret.comment = SaysNoJava

----------------------------------------------------------------------------
(* C19 *)

\* C19: the neutral 'already present' outcome is returned only when the
\* list-by-alias probe succeeded, that is the alias is in the trust store
\* and the store opened with the given password; when the alias is present
\* but the password is wrong or the store corrupt, the alias probe and the
\* list-all probe both fail and the outcome is the 'store unreadable'
\* failure, with no import attempted.
C19_AlreadyPresentIsSound ==
    Called =>
        /\ (Returned(last[1]) /\ last[1].f.ret.comment = SaysAlreadyPresent)
               => /\ AliasInStore(last[1])
                  /\ StoreOpens(last[1])
                  /\ last[1].f.log[Len(last[1].f.log)][2] = "-list -alias"
        /\ (DiscoverySucceeded(last[1]) /\ AliasInStore(last[1]) /\ ~StoreOpens(last[1]))
               => /\ Returned(last[1])
                  /\ OutcomeStep(last[1].f.ret) = 5
                  /\ last[1].f.ret.result = (IF last[1].f.test THEN "None" ELSE "False")
                  /\ Invoked(last[1], "-list -alias") /\ Invoked(last[1], "-list")
                  /\ ~ImportInvoked(last[1])
                  /\ stores = last[1].stores0

\* the alias sits in a corrupt store: the outcome is 'store unreadable'
C19_Witness ==
    /\ Called /\ DiscoverySucceeded(last[1]) /\ AliasInStore(last[1])
    /\ last[1].stores0[last[1].f.trust_store].corrupt
    /\ OutcomeStep(last[1].f.ret) = 5

----------------------------------------------------------------------------
(* C20 *)

PastAliasProbe(f) == f.pc \in {"list", "printcert", "apply"}
FrameInvoked(f, op) == \E i \in DOMAIN f.log : f.log[i][2] = op

\* C20: nothing keeps two interleaved live invocations for the same alias
\* and trust store apart.  While one is between its alias probe and its
\* import the other may pass its own alias probe; and an invocation that
\* found the alias absent and passed the list-all and decode probes invokes
\* the import when it ends, whatever the other did in the meantime.
C20_NoMutualExclusion ==
    \A p \in Procs :
        /\ (procs[p].pc = "returned" /\ FrameInvoked(procs[p], "-printcert")
                /\ certs[procs[p].cert_file] = "valid")
               => FrameInvoked(procs[p], "-importcert")
        /\ (procs[p].pc = "list_alias"
                /\ \E q \in Procs \ {p} : PastAliasProbe(procs[q]))
               => ENABLED ProcStep(p)

\* both invocations passed the alias-absent check before either imported, and
\* both invoked the import: one added the alias, the other was refused
C20_Witness ==
    /\ \A p \in Procs : procs[p].pc = "returned" /\ FrameInvoked(procs[p], "-importcert")
    /\ \E p \in Procs : procs[p].ret.changes = OldNew(procs[p].alias)
    /\ \E p \in Procs : Contains(procs[p].ret.comment, "already exists")
====
